---- MODULE Spec2Model ----
(***************************************************************************)
(* bigcommerce-api-mcp: the tool dispatcher of mcpServer.js (list and call *)
(* handlers), the three BigCommerce operations it dispatches to, the start *)
(* of the process (run) and the stdio, streamable-HTTP and SSE bindings.   *)
(*                                                                         *)
(* JavaScript values are tagged records; texts are TLA+ strings built with *)
(* \o exactly as the template literals of the source build them.           *)
(***************************************************************************)
EXTENDS Integers, Sequences, FiniteSets, TLC

VARIABLES
  tools,      \* the Registry handed to setupServerHandlers (never reassigned)
  calls,      \* per request slot: idle, or a tools/call suspended in its operation
  reply,      \* the last response written back by a handler
  faulted,    \* whether some call has ended in the InternalError fault
  proc,       \* the process: argv flags, env, position in run(), exit code, bindings
  transports, \* setupSSE: the map sessionId -> transport
  servers,    \* setupSSE: the map sessionId -> protocol server
  conns,      \* setupSSE: per GET /sse connection, where its handlers stand
  posted,     \* setupSSE: what the last POST /messages was answered with
  requests    \* setupStreamableHttp: per POST /mcp request, where it stands

vars == <<tools, calls, reply, faulted, proc, transports, servers, conns, posted,
          requests>>

\* the state of the bindings, which the dispatcher's handlers never touch
bindingVars == <<proc, transports, servers, conns, posted, requests>>

----------------------------------------------------------------------------
(* Bounds *)

MaxCalls == 1      \* request slots that may be in flight together
MaxSessions == 3   \* GET /sse connections opened during a run
MaxRequests == 2   \* POST /mcp requests received during a run

CallIds == 1..MaxCalls

----------------------------------------------------------------------------
(* JavaScript values *)

Undefined == [t |-> "undefined"]
Null == [t |-> "null"]
Bool(b) == [t |-> "boolean", b |-> b]
Num(n) == [t |-> "number", n |-> n]
Str(s) == [t |-> "string", s |-> s]
Arr(items) == [t |-> "array", items |-> items]
Prop(k, v) == [k |-> k, v |-> v]
Obj(props) == [t |-> "object", props |-> props]

\* typeof v
TypeOf(v) ==
  CASE v.t = "undefined" -> "undefined"
    [] v.t = "null" -> "object"
    [] v.t = "array" -> "object"
    [] OTHER -> v.t

\* Array.isArray(v)
IsArray(v) == v.t = "array"

\* ToBoolean(v): the test of `if (v)`, `v && ...`, `v || ...`
Truthy(v) ==
  CASE v.t = "undefined" -> FALSE
    [] v.t = "null" -> FALSE
    [] v.t = "boolean" -> v.b
    [] v.t = "number" -> v.n # 0
    [] v.t = "string" -> v.s # ""
    [] OTHER -> TRUE

\* own enumerable keys of an object value
HasOwn(o, key) == o.t = "object" /\ \E i \in 1..Len(o.props) : o.props[i].k = key

\* o.key on a non-nullish value: an own property, else undefined
\* (arrays and primitives of the pools carry no property of these names)
Get(o, key) ==
  IF HasOwn(o, key)
    THEN o.props[CHOOSE i \in 1..Len(o.props) : o.props[i].k = key].v
    ELSE Undefined

\* names every plain object inherits from Object.prototype
ObjectPrototypeKeys ==
  {"constructor", "toString", "valueOf", "hasOwnProperty", "isPrototypeOf",
   "propertyIsEnumerable", "toLocaleString", "__proto__"}

\* `key in o` for an object o (own or inherited)
In(key, o) == HasOwn(o, key) \/ key \in ObjectPrototypeKeys

\* a && b, a || b
And(a, b) == IF Truthy(a) THEN b ELSE a
Or(a, b) == IF Truthy(a) THEN a ELSE b

\* decimal text of an integer, as Number.prototype.toString gives it
NumToString(n) == IF n < 0 THEN "-" \o ToString(0 - n) ELSE ToString(n)

RECURSIVE ToStr(_)
RECURSIVE JoinComma(_, _)

\* Array.prototype.join(","): null and undefined elements give the empty text
JoinComma(items, i) ==
  IF i > Len(items) THEN ""
  ELSE (IF i > 1 THEN "," ELSE "")
       \o (IF items[i].t \in {"undefined", "null"} THEN "" ELSE ToStr(items[i]))
       \o JoinComma(items, i + 1)

\* String(v) / `${v}` / v.toString()
ToStr(v) ==
  CASE v.t = "undefined" -> "undefined"
    [] v.t = "null" -> "null"
    [] v.t = "boolean" -> (IF v.b THEN "true" ELSE "false")
    [] v.t = "number" -> NumToString(v.n)
    [] v.t = "string" -> v.s
    [] v.t = "array" -> JoinComma(v.items, 1)
    [] OTHER -> "[object Object]"

----------------------------------------------------------------------------
(* JSON.stringify(value) and JSON.stringify(value, null, 2) *)

RECURSIVE Stringify(_, _, _)
RECURSIVE JoinItems(_, _, _, _)
RECURSIVE JoinProps(_, _, _, _)

\* separator between two members: "," alone, or "," and a new line
Separator(indent) == IF indent = "" THEN "," ELSE ",\n"

\* the elements of an array at the given indentation;
\* undefined elements are written as null
JoinItems(items, i, gap, indent) ==
  IF i > Len(items) THEN ""
  ELSE (IF i > 1 THEN Separator(indent) ELSE "")
       \o gap
       \o (IF items[i].t = "undefined" THEN "null"
                                       ELSE Stringify(items[i], gap, indent))
       \o JoinItems(items, i + 1, gap, indent)

\* the properties of an object at the given indentation
JoinProps(props, i, gap, indent) ==
  IF i > Len(props) THEN ""
  ELSE (IF i > 1 THEN Separator(indent) ELSE "")
       \o gap \o "\"" \o props[i].k \o "\":" \o (IF indent = "" THEN "" ELSE " ")
       \o Stringify(props[i].v, gap, indent)
       \o JoinProps(props, i + 1, gap, indent)

\* properties whose value is undefined are not serialised
Defined(props) == SelectSeq(props, LAMBDA p : p.v.t # "undefined")

\* gap is the indentation of the enclosing line, indent the unit ("" = compact)
Stringify(v, gap, indent) ==
  LET inner == gap \o indent
      open == IF indent = "" THEN "" ELSE "\n"
      close == IF indent = "" THEN "" ELSE "\n" \o gap
  IN CASE v.t = "null" -> "null"
       [] v.t = "boolean" -> (IF v.b THEN "true" ELSE "false")
       [] v.t = "number" -> NumToString(v.n)
       [] v.t = "string" -> "\"" \o v.s \o "\""
       [] v.t = "array" ->
            IF v.items = <<>> THEN "[]"
            ELSE "[" \o open \o JoinItems(v.items, 1, inner, indent) \o close \o "]"
       [] v.t = "object" ->
            IF Defined(v.props) = <<>> THEN "{}"
            ELSE "{" \o open \o JoinProps(Defined(v.props), 1, inner, indent)
                 \o close \o "}"
       [] OTHER -> "undefined"

\* JSON.stringify(v, null, 2)
JSONStringify(v) == Stringify(v, "", "  ")

\* JSON.stringify(v)
JSONStringifyCompact(v) == Stringify(v, "", "")

----------------------------------------------------------------------------
(* Tool descriptors *)

Descriptor(fn, name, description, properties, required) ==
  [function |-> fn,
   definition |->
     [type |-> "function",
      function |->
        [name |-> name,
         description |-> description,
         parameters |->
           [type |-> "object", properties |-> properties, required |-> required]]]]

ProductsTool ==
  Descriptor("getAllProducts", "get_all_products",
             "Get all products from the BigCommerce API.",
             <<"store_Hash">>, <<>>)

CustomersTool ==
  Descriptor("getAllCustomers", "get_all_customers",
             "Get all customers from the BigCommerce API with comprehensive filtering options.",
             <<"store_Hash", "id", "email", "name", "name_like", "company", "phone",
               "customer_group_id", "registration_ip_address", "date_created",
               "date_created_min", "date_created_max", "date_modified",
               "date_modified_min", "date_modified_max", "sort", "include",
               "limit", "page">>,
             <<>>)

OrdersTool ==
  Descriptor("getAllOrders", "get_all_orders",
             "Get all orders from the BigCommerce API.",
             <<"store_Hash", "customer_id", "email", "status_id", "min_id", "max_id",
               "min_total", "max_total", "min_date_created", "max_date_created",
               "min_date_modified", "max_date_modified", "channel_id",
               "payment_method", "cart_id", "external_order_id", "sort",
               "limit", "page">>,
             <<>>)

\* a descriptor as the data model describes one: two required parameters and
\* an operation that may return any value or throw
CustomTool ==
  Descriptor("customOperation", "custom_tool", "A tool with required parameters.",
             <<"store_Hash", "customer_id", "email">>,
             <<"store_Hash", "customer_id">>)

\* what discoverTools() resolved to, or the [] the networked bindings fall back to
ShippedRegistry == <<ProductsTool, CustomersTool, OrdersTool>>
ExtendedRegistry == <<ProductsTool, CustomersTool, OrdersTool, CustomTool>>
EmptyRegistry == <<>>

Registries == {ShippedRegistry, ExtendedRegistry, EmptyRegistry}

----------------------------------------------------------------------------
(* The list handler *)

\* tool.definition?.function
DefinitionFunction(tool) ==
  IF "definition" \in DOMAIN tool /\ "function" \in DOMAIN tool.definition
    THEN tool.definition.function
    ELSE Undefined

HasDefinitionFunction(tool) == DefinitionFunction(tool) # Undefined

\* a projection that lists the Registry back to front
transformToolsReversed(registry) ==
  LET mapped(tool) ==
        [name |-> DefinitionFunction(tool).name,
         description |-> DefinitionFunction(tool).description,
         inputSchema |-> DefinitionFunction(tool).parameters]
      RECURSIVE Walk(_)
      Walk(i) ==
        IF i < 1 THEN <<>>
        ELSE IF HasDefinitionFunction(registry[i])
               THEN <<mapped(registry[i])>> \o Walk(i - 1)
               ELSE Walk(i - 1)
  IN Walk(Len(registry))

\* tools.map(...).filter(Boolean)
transformTools(registry) ==
  LET mapped(tool) ==
        [name |-> DefinitionFunction(tool).name,
         description |-> DefinitionFunction(tool).description,
         inputSchema |-> DefinitionFunction(tool).parameters]
      RECURSIVE Walk(_)
      Walk(i) ==
        IF i > Len(registry) THEN <<>>
        ELSE IF HasDefinitionFunction(registry[i])
               THEN <<mapped(registry[i])>> \o Walk(i + 1)
               ELSE Walk(i + 1)
  IN Walk(1)

----------------------------------------------------------------------------
(* The call handler, up to the invocation of the operation *)

McpError(code, message) == [kind |-> "McpError", code |-> code, message |-> message]
TypeError(message) == [kind |-> "TypeError", message |-> message]

\* tools.find((t) => t.definition.function.name === toolName):
\* the index of the first match, 0 when there is none, -1 when the
\* predicate dereferences an entry that has no definition.function
RECURSIVE FindFrom(_, _, _)
FindFrom(registry, toolName, i) ==
  IF i > Len(registry) THEN 0
  ELSE IF ~HasDefinitionFunction(registry[i]) THEN -1
  ELSE IF registry[i].definition.function.name = toolName THEN i
  ELSE FindFrom(registry, toolName, i + 1)

\* a lookup in which the last descriptor of a name wins
FindToolLast(registry, toolName) ==
  IF FindFrom(registry, toolName, 1) <= 0 THEN FindFrom(registry, toolName, 1)
  ELSE CHOOSE i \in 1..Len(registry) :
         /\ HasDefinitionFunction(registry[i])
         /\ registry[i].definition.function.name = toolName
         /\ \A j \in (i + 1)..Len(registry) :
              HasDefinitionFunction(registry[j])
              => registry[j].definition.function.name # toolName

\* a lookup that falls back to the last entry when no name matches
FindToolFallback(registry, toolName) ==
  IF FindFrom(registry, toolName, 1) = 0 THEN Len(registry)
  ELSE FindFrom(registry, toolName, 1)

FindTool(registry, toolName) == FindFrom(registry, toolName, 1)

\* tool.definition?.function?.parameters?.required || []
RequiredParameters(tool) ==
  IF HasDefinitionFunction(tool)
     /\ "parameters" \in DOMAIN tool.definition.function
     /\ "required" \in DOMAIN tool.definition.function.parameters
    THEN tool.definition.function.parameters.required
    ELSE <<>>

\* the for loop over requiredParameters: 0 when every one is `in` args,
\* else the position of the first that is not
RECURSIVE FirstMissingFrom(_, _, _)
FirstMissingFrom(required, args, i) ==
  IF i > Len(required) THEN 0
  ELSE IF ~In(required[i], args) THEN i
  ELSE FirstMissingFrom(required, args, i + 1)

\* a check that reports the last missing name instead of the first
FirstMissingLast(required, args) ==
  IF \A i \in 1..Len(required) : In(required[i], args) THEN 0
  ELSE CHOOSE i \in 1..Len(required) :
         /\ ~In(required[i], args)
         /\ \A j \in (i + 1)..Len(required) : In(required[j], args)

FirstMissing(required, args) == FirstMissingFrom(required, args, 1)

\* lines 47-62: resolve, then check the required parameters.  The result is
\* the fault the handler throws, or the registry index of the tool to invoke.
\* `p in args` throws a TypeError when args is not an object.
CallToolBegin(registry, toolName, args) ==
  LET found == FindTool(registry, toolName) IN
  IF found = -1
    THEN TypeError("Cannot read properties of undefined (reading 'function')")
  ELSE IF found = 0
    THEN McpError("MethodNotFound", "Unknown tool: " \o toolName)
  ELSE
    LET required == RequiredParameters(registry[found])
        missing == FirstMissing(required, args)
    IN IF required # <<>> /\ args.t # "object"
         THEN TypeError("Cannot use 'in' operator to search for '"
                        \o required[1] \o "' in " \o ToStr(args))
       ELSE IF missing # 0
         THEN McpError("InvalidParams",
                       "Missing required parameter: " \o required[missing])
       ELSE [kind |-> "invoke", tool |-> found]

----------------------------------------------------------------------------
(* The call handler, from the settlement of the operation on *)

\* what `await tool.function(args)` settles to
Returned(value) == [kind |-> "returned", value |-> value]
Threw(message) == [kind |-> "threw", message |-> message]

\* lines 68: result && typeof result === 'object' && result.error
IsFailureValue(result) ==
  Truthy(And(And(result, Bool(TypeOf(result) = "object")), Get(result, "error")))

\* a formatter that counts and prints the data array alone
FormatResultDataOnly(result) ==
  IF TypeOf(result) = "string" THEN result.s
  ELSE IF TypeOf(result) = "object" /\ result # Null THEN
    IF IsArray(result)
      THEN "Found " \o NumToString(Len(result.items)) \o " items:\n"
           \o JSONStringify(result)
    ELSE IF Truthy(Get(result, "data")) /\ IsArray(Get(result, "data"))
      THEN "Found " \o NumToString(Len(Get(result, "data").items)) \o " items:\n"
           \o JSONStringify(Get(result, "data"))
    ELSE JSONStringify(result)
  ELSE ToStr(result)

\* lines 82-96
FormatResult(result) ==
  IF TypeOf(result) = "string" THEN result.s
  ELSE IF TypeOf(result) = "object" /\ result # Null THEN
    IF IsArray(result)
      THEN "Found " \o NumToString(Len(result.items)) \o " items:\n"
           \o JSONStringify(result)
    ELSE IF Truthy(Get(result, "data")) /\ IsArray(Get(result, "data"))
      THEN "Found " \o NumToString(Len(Get(result, "data").items)) \o " items:\n"
           \o JSONStringify(result)
    ELSE JSONStringify(result)
  ELSE ToStr(result)

\* line 109: result && typeof result === 'object' && (result.data || Array.isArray(result))
HasData(result) ==
  And(And(result, Bool(TypeOf(result) = "object")),
      Or(Get(result, "data"), Bool(IsArray(result))))

TextContent(text) == <<[type |-> "text", text |-> text]>>

\* an error envelope whose text is the bare message
ErrorEnvelopeBare(result) ==
  [content |-> TextContent(ToStr(Get(result, "error"))),
   isError |-> TRUE]

\* lines 69-77
ErrorEnvelope(result) ==
  [content |-> TextContent("Error: " \o ToStr(Get(result, "error"))),
   isError |-> TRUE]

\* lines 98-112 (the timestamp is the clock reading, kept abstract)
NormalEnvelope(toolName, result) ==
  [content |-> TextContent(FormatResult(result)),
   _meta |-> [toolName |-> toolName,
              resultType |-> TypeOf(result),
              hasData |-> HasData(result),
              timestamp |-> "toISOString"]]

\* a handler that raises InternalError for a returned failure value
CallToolEndConflated(toolName, settled) ==
  IF settled.kind = "threw"
    THEN McpError("InternalError", "API error: " \o settled.message)
  ELSE IF IsFailureValue(settled.value)
    THEN McpError("InternalError",
                  "API error: " \o ToStr(Get(settled.value, "error")))
  ELSE [kind |-> "result", envelope |-> NormalEnvelope(toolName, settled.value)]

\* a handler that answers a throw with a business-failure envelope
CallToolEndSwallowed(toolName, settled) ==
  IF settled.kind = "threw"
    THEN [kind |-> "result",
          envelope |-> [content |-> TextContent("Error: " \o settled.message),
                        isError |-> TRUE]]
  ELSE IF IsFailureValue(settled.value)
    THEN [kind |-> "result", envelope |-> ErrorEnvelope(settled.value)]
  ELSE [kind |-> "result", envelope |-> NormalEnvelope(toolName, settled.value)]

\* lines 63-119: the try block around the invocation
CallToolEnd(toolName, settled) ==
  IF settled.kind = "threw"
    THEN McpError("InternalError", "API error: " \o settled.message)
  ELSE IF IsFailureValue(settled.value)
    THEN [kind |-> "result", envelope |-> ErrorEnvelope(settled.value)]
  ELSE [kind |-> "result", envelope |-> NormalEnvelope(toolName, settled.value)]

----------------------------------------------------------------------------
(* The operations: building the upstream request *)

baseUrl == "https://api.bigcommerce.com/stores"

\* process.env.BIGCOMMERCE_STORE_HASH of the deployment
EnvStoreHash == Str("envstore")

\* the destructuring parameter `{ ... } = {}`: an absent bag is the empty one
Bag(args) == IF args.t = "undefined" THEN Obj(<<>>) ELSE args

\* a destructured name with a default: the default applies to undefined only
WithDefault(v, d) == IF v.t = "undefined" THEN d ELSE v

\* store_Hash || process.env.BIGCOMMERCE_STORE_HASH
StoreHash(args) == Or(Get(Bag(args), "store_Hash"), EnvStoreHash)

\* argument name and query key of each filter, in the order of the appends
OrdersFilters ==
  << <<"customer_id", "customer_id">>, <<"email", "email">>,
     <<"status_id", "status_id">>, <<"min_id", "min_id">>, <<"max_id", "max_id">>,
     <<"min_total", "min_total">>, <<"max_total", "max_total">>,
     <<"min_date_created", "min_date_created">>,
     <<"max_date_created", "max_date_created">>,
     <<"min_date_modified", "min_date_modified">>,
     <<"max_date_modified", "max_date_modified">>,
     <<"channel_id", "channel_id">>, <<"payment_method", "payment_method">>,
     <<"cart_id", "cart_id">>, <<"external_order_id", "external_order_id">>,
     <<"sort", "sort">> >>

CustomersFilters ==
  << <<"id", "id:in">>, <<"email", "email:in">>, <<"name", "name:in">>,
     <<"name_like", "name:like">>, <<"company", "company:in">>,
     <<"phone", "phone:in">>, <<"customer_group_id", "customer_group_id:in">>,
     <<"registration_ip_address", "registration_ip_address:in">>,
     <<"date_created", "date_created">>, <<"date_created_min", "date_created:min">>,
     <<"date_created_max", "date_created:max">>, <<"date_modified", "date_modified">>,
     <<"date_modified_min", "date_modified:min">>,
     <<"date_modified_max", "date_modified:max">>,
     <<"sort", "sort">>, <<"include", "include">> >>

DefaultLimit == 50
DefaultPage == 1

\* the filters alone, without the limit and page appends
QueryParamsNoPaging(filters, args) ==
  LET bag == Bag(args)
      RECURSIVE Walk(_)
      Walk(i) ==
        IF i > Len(filters) THEN <<>>
        ELSE (IF Truthy(Get(bag, filters[i][1]))
                THEN << <<filters[i][2], ToStr(Get(bag, filters[i][1]))>> >>
                ELSE <<>>)
             \o Walk(i + 1)
  IN Walk(1)

\* the (key, value) pairs appended to the URLSearchParams: a filter is
\* appended when its value is truthy, limit and page (with their defaults) last
QueryParams(filters, args) ==
  LET bag == Bag(args)
      limit == WithDefault(Get(bag, "limit"), Num(DefaultLimit))
      page == WithDefault(Get(bag, "page"), Num(DefaultPage))
      RECURSIVE Walk(_)
      Walk(i) ==
        IF i > Len(filters) THEN <<>>
        ELSE (IF Truthy(Get(bag, filters[i][1]))
                THEN << <<filters[i][2], ToStr(Get(bag, filters[i][1]))>> >>
                ELSE <<>>)
             \o Walk(i + 1)
  IN Walk(1)
     \o (IF Truthy(limit) THEN << <<"limit", ToStr(limit)>> >> ELSE <<>>)
     \o (IF Truthy(page) THEN << <<"page", ToStr(page)>> >> ELSE <<>>)

\* application/x-www-form-urlencoded serialisation of a key: ":" is escaped
\* (the values of the pools consist of unreserved characters only)
UrlEncode(text) ==
  CASE text = "id:in" -> "id%3Ain"
    [] text = "email:in" -> "email%3Ain"
    [] text = "name:in" -> "name%3Ain"
    [] text = "name:like" -> "name%3Alike"
    [] text = "company:in" -> "company%3Ain"
    [] text = "phone:in" -> "phone%3Ain"
    [] text = "customer_group_id:in" -> "customer_group_id%3Ain"
    [] text = "registration_ip_address:in" -> "registration_ip_address%3Ain"
    [] text = "date_created:min" -> "date_created%3Amin"
    [] text = "date_created:max" -> "date_created%3Amax"
    [] text = "date_modified:min" -> "date_modified%3Amin"
    [] text = "date_modified:max" -> "date_modified%3Amax"
    [] OTHER -> text

\* queryParams.toString()
RECURSIVE QueryString(_, _)
QueryString(params, i) ==
  IF i > Len(params) THEN ""
  ELSE (IF i > 1 THEN "&" ELSE "")
       \o UrlEncode(params[i][1]) \o "=" \o UrlEncode(params[i][2])
       \o QueryString(params, i + 1)

WithQuery(path, params) ==
  path \o (IF QueryString(params, 1) # "" THEN "?" \o QueryString(params, 1) ELSE "")

\* the URL each operation fetches
ProductsUrl(args) == baseUrl \o "/" \o ToStr(StoreHash(args)) \o "/v3/catalog/products"
OrdersUrl(args) ==
  WithQuery(baseUrl \o "/" \o ToStr(StoreHash(args)) \o "/v2/orders",
            QueryParams(OrdersFilters, args))
CustomersUrl(args) ==
  WithQuery(baseUrl \o "/" \o ToStr(StoreHash(args)) \o "/v3/customers",
            QueryParams(CustomersFilters, args))

RequestUrl(fn, args) ==
  CASE fn = "getAllProducts" -> ProductsUrl(args)
    [] fn = "getAllOrders" -> OrdersUrl(args)
    [] fn = "getAllCustomers" -> CustomersUrl(args)
    [] OTHER -> ""

----------------------------------------------------------------------------
(* The upstream: what fetch() settles to *)

EmptyBody == ""
BlankBody == " \n "
DataOneBody == "{\"data\":[{\"id\":1}]}"
ListTwoBody == "[{\"id\":1},{\"id\":2}]"
ErrorFieldBody == "{\"error\":\"boom\"}"
NumberBody == "42"
StringBody == "\"hello\""
NullBody == "null"
ProblemBody == "{\"status\":401,\"title\":\"Unauthorized\"}"
Html401Body == "<html><head><title>401 Unauthorized</title></head></html>"
HtmlPlainBody == "<html><body>Service unavailable</body></html>"
GarbageBody == "oops"

DataOne == Obj(<<Prop("data", Arr(<<Obj(<<Prop("id", Num(1))>>)>>))>>)
ListTwo == Arr(<<Obj(<<Prop("id", Num(1))>>), Obj(<<Prop("id", Num(2))>>)>>)
ErrorField == Obj(<<Prop("error", Str("boom"))>>)
Problem == Obj(<<Prop("status", Num(401)), Prop("title", Str("Unauthorized"))>>)

Parsed(value) == [ok |-> TRUE, value |-> value]
SyntaxError(message) == [ok |-> FALSE, message |-> message]

\* JSON.parse(text) on the texts of the body pool
JSONParse(text) ==
  CASE text = DataOneBody -> Parsed(DataOne)
    [] text = ListTwoBody -> Parsed(ListTwo)
    [] text = ErrorFieldBody -> Parsed(ErrorField)
    [] text = NumberBody -> Parsed(Num(42))
    [] text = StringBody -> Parsed(Str("hello"))
    [] text = NullBody -> Parsed(Null)
    [] text = ProblemBody -> Parsed(Problem)
    [] text \in {EmptyBody, BlankBody} -> SyntaxError("Unexpected end of JSON input")
    [] text \in {Html401Body, HtmlPlainBody} ->
         SyntaxError("Unexpected token < in JSON at position 0")
    [] text = GarbageBody -> SyntaxError("Unexpected token o in JSON at position 0")

\* text.trim()
Trim(text) == IF text = BlankBody THEN "" ELSE text

\* text.startsWith('<')
StartsWithLt(text) == text \in {Html401Body, HtmlPlainBody}

\* text.includes(part)
Includes(text, part) ==
  <<text, part>> \in {<<Html401Body, "401">>, <<Html401Body, "Unauthorized">>,
                      <<ProblemBody, "401">>, <<ProblemBody, "Unauthorized">>}

\* text.match(/<title>(.*?)<\/title>/i): the captured title, or no match
TitleMatch(text) ==
  IF text = Html401Body THEN Str("401 Unauthorized") ELSE Null

\* text.substring(0, 200); every body of the pool is shorter than that
Substring200(text) == CASE Len(text) <= 200 -> text

Response(status, statusText, body) ==
  [kind |-> "response", status |-> status, statusText |-> statusText, body |-> body]
Rejected(message) == [kind |-> "rejected", message |-> message]

\* response.ok
Ok(response) == response.status >= 200 /\ response.status <= 299

Upstream ==
  {Response(200, "OK", b) :
     b \in {EmptyBody, BlankBody, DataOneBody, ListTwoBody, ErrorFieldBody,
            StringBody, Html401Body, GarbageBody}}
  \cup {Response(401, "Unauthorized", b) : b \in {Html401Body, ProblemBody, EmptyBody}}
  \cup {Rejected("fetch failed")}

----------------------------------------------------------------------------
(* The operations: from the settlement of fetch() to the returned value *)

\* the catch block of an operation: the failure value it returns
Failure(label, message) ==
  Obj(<<Prop("error", Str("An error occurred while getting all " \o label \o ": "
                          \o message))>>)

\* { data: [], meta: { total: 0 } }
EmptySentinel ==
  Obj(<<Prop("data", Arr(<<>>)), Prop("meta", Obj(<<Prop("total", Num(0))>>))>>)

\* response.text() after response.json() has consumed the body
BodyUnusable == "Body is unusable: Body has already been read"

\* get-all-products.js 31-69 and get-all-orders.js 92-130 (the same code)
ProductsOrdersSettle(label, fetched) ==
  IF fetched.kind = "rejected" THEN Failure(label, fetched.message)
  ELSE IF ~Ok(fetched) THEN
    IF JSONParse(fetched.body).ok
      THEN Failure(label, JSONStringifyCompact(JSONParse(fetched.body).value))
      ELSE Failure(label, BodyUnusable)
  ELSE IF fetched.body = "" \/ Trim(fetched.body) = "" THEN EmptySentinel
  ELSE IF JSONParse(fetched.body).ok THEN JSONParse(fetched.body).value
  ELSE Failure(label, "Invalid JSON response: " \o Substring200(fetched.body) \o "...")

\* get-all-customers.js 109-125: the error thrown for an HTML body
HtmlError(text) ==
  LET errorTitle == IF TitleMatch(text) # Null THEN TitleMatch(text).s
                                               ELSE "Unknown error"
      errorDetails ==
        IF Includes(text, "401") \/ Includes(text, "Unauthorized")
          THEN "Authentication failed - invalid API token"
        ELSE IF Includes(text, "403") \/ Includes(text, "Forbidden")
          THEN "Access forbidden - check API token permissions"
        ELSE IF Includes(text, "404") \/ Includes(text, "Not Found")
          THEN "Store not found - check store hash"
        ELSE ""
  IN "BigCommerce API Error: " \o errorTitle \o ". " \o errorDetails

\* get-all-customers.js 93-135
CustomersSettle(fetched) ==
  IF fetched.kind = "rejected" THEN Failure("customers", fetched.message)
  ELSE IF ~Ok(fetched)
    THEN Failure("customers",
                 "HTTP " \o NumToString(fetched.status) \o ": " \o fetched.body)
  ELSE IF StartsWithLt(Trim(fetched.body))
    THEN Failure("customers", HtmlError(fetched.body))
  ELSE IF JSONParse(fetched.body).ok THEN JSONParse(fetched.body).value
  ELSE Failure("customers", JSONParse(fetched.body).message)

\* the value executeFunction returns once fetch() has settled
Settle(fn, fetched) ==
  CASE fn = "getAllProducts" -> ProductsOrdersSettle("products", fetched)
    [] fn = "getAllOrders" -> ProductsOrdersSettle("orders", fetched)
    [] fn = "getAllCustomers" -> CustomersSettle(fetched)

ShippedOperations == {"getAllProducts", "getAllOrders", "getAllCustomers"}

\* what the operation of CustomTool may settle to
Payloads ==
  {Str("hello"), Str(""), Num(42), Num(0), Bool(TRUE), Bool(FALSE), Null, Undefined,
   Arr(<<>>), ListTwo, DataOne, EmptySentinel, Obj(<<>>),
   Obj(<<Prop("id", Num(1))>>),
   Obj(<<Prop("data", Str("x"))>>),
   Obj(<<Prop("data", Num(0))>>),
   ErrorField,
   Obj(<<Prop("error", Str(""))>>)}

CustomOutcomes == {Returned(v) : v \in Payloads} \cup {Threw("boom")}

----------------------------------------------------------------------------
(* Requests *)

ToolNames ==
  {"get_all_products", "get_all_customers", "get_all_orders", "custom_tool",
   "no_such_tool"}

\* request.params.arguments: absent, or an object
ArgumentBags ==
  {Undefined,
   Obj(<<>>),
   Obj(<<Prop("store_Hash", Str("abc"))>>),
   Obj(<<Prop("customer_id", Num(3))>>),
   Obj(<<Prop("store_Hash", Null), Prop("customer_id", Num(3))>>)}

----------------------------------------------------------------------------
(* The state machine *)

Idle == [state |-> "idle"]
NoReply == [op |-> "none"]

\* process.exit was not called
NoExit == -1

\* an empty object used as a map
EmptyMap == <<>>

\* the handlers are set up on a server connected by setupStdio: run() went
\* through without flags, no HTTP or SSE endpoint exists
StdioServing ==
  /\ proc = [pc |-> "serving", isStreamableHttp |-> FALSE, isSSE |-> FALSE,
             discovery |-> "ok", exit |-> NoExit, activated |-> <<"stdio">>,
             env |-> [MCP_AUTH_TOKEN |-> Undefined], server |-> "connected"]
  /\ transports = EmptyMap
  /\ servers = EmptyMap
  /\ conns = EmptyMap
  /\ posted = NoReply
  /\ requests = EmptyMap

Init ==
  /\ tools \in Registries
  /\ calls = [c \in CallIds |-> Idle]
  /\ reply = NoReply
  /\ faulted = FALSE
  /\ StdioServing

\* the ListTools handler (lines 42-44)
ListTools ==
  /\ reply' = [op |-> "list", tools |-> transformTools(tools)]
  /\ UNCHANGED <<tools, calls, faulted>>
  /\ UNCHANGED bindingVars

CallReply(name, args, invoked, fetched, settled, outcome) ==
  [op |-> "call", name |-> name, args |-> args, invoked |-> invoked,
   fetched |-> fetched, settled |-> settled, outcome |-> outcome]

None == [kind |-> "none"]

\* the CallTool handler up to `await tool.function(args)` (lines 46-64): it
\* throws its fault, or invokes the operation, which runs up to its fetch()
CallTool(c, name, args) ==
  /\ calls[c] = Idle
  /\ LET begin == CallToolBegin(tools, name, args) IN
     IF begin.kind = "invoke"
       THEN /\ calls' = [calls EXCEPT ![c] =
                          [state |-> "awaiting", name |-> name, args |-> args,
                           tool |-> begin.tool,
                           url |-> RequestUrl(tools[begin.tool].function, args)]]
            /\ UNCHANGED reply
       ELSE /\ reply' = CallReply(name, args, FALSE, None, None, begin)
            /\ UNCHANGED calls
  /\ UNCHANGED <<tools, faulted>>
  /\ UNCHANGED bindingVars

\* the rest of the CallTool handler (lines 64-119) once the operation settled
Finish(c, fetched, settled) ==
  LET outcome == CallToolEnd(calls[c].name, settled) IN
  /\ reply' = CallReply(calls[c].name, calls[c].args, TRUE, fetched, settled,
                        outcome)
  /\ calls' = [calls EXCEPT ![c] = Idle]
  /\ faulted' = (faulted \/ outcome.kind = "McpError")
  /\ UNCHANGED tools
  /\ UNCHANGED bindingVars

\* a settlement that runs the operation of the latest call in flight, as a
\* handler keeping the current tool in one shared place would
UpstreamSettlesShared(c, fetched) ==
  /\ calls[c].state = "awaiting"
  /\ tools[calls[c].tool].function \in ShippedOperations
  /\ LET last == CHOOSE d \in DOMAIN calls :
                   /\ calls[d].state = "awaiting"
                   /\ \A e \in DOMAIN calls : calls[e].state = "awaiting" => e <= d
     IN Finish(c, fetched, Returned(Settle(tools[calls[last].tool].function, fetched)))

\* fetch() settles and a shipped operation runs to its return
UpstreamSettles(c, fetched) ==
  /\ calls[c].state = "awaiting"
  /\ tools[calls[c].tool].function \in ShippedOperations
  /\ Finish(c, fetched, Returned(Settle(tools[calls[c].tool].function, fetched)))

\* the operation of CustomTool returns or throws
CustomSettles(c, settled) ==
  /\ calls[c].state = "awaiting"
  /\ tools[calls[c].tool].function = "customOperation"
  /\ Finish(c, None, settled)

Next ==
  \/ ListTools
  \/ \E c \in CallIds, name \in ToolNames, args \in ArgumentBags : CallTool(c, name, args)
  \/ \E c \in CallIds, fetched \in Upstream : UpstreamSettles(c, fetched)
  \/ \E c \in CallIds, settled \in CustomOutcomes : CustomSettles(c, settled)

Spec == Init /\ [][Next]_vars

\* the deployment as shipped: discovery gave the three operations, or failed
InitShipped ==
  /\ tools \in {ShippedRegistry, EmptyRegistry}
  /\ calls = [c \in CallIds |-> Idle]
  /\ reply = NoReply
  /\ faulted = FALSE
  /\ StdioServing

NextShipped ==
  \/ ListTools
  \/ \E c \in CallIds, name \in ToolNames, args \in ArgumentBags : CallTool(c, name, args)
  \/ \E c \in CallIds, fetched \in Upstream : UpstreamSettles(c, fetched)

SpecShipped == InitShipped /\ [][NextShipped]_vars

----------------------------------------------------------------------------
(* Vocabulary of the properties *)

\* the names of the descriptors of the Registry
RegistryNames == {tools[i].definition.function.name : i \in 1..Len(tools)}

\* the descriptor a name denotes: the first one of that name
Denoted(name) ==
  tools[CHOOSE i \in 1..Len(tools) :
          /\ tools[i].definition.function.name = name
          /\ \A j \in 1..(i - 1) : tools[j].definition.function.name # name]

RequiredOf(name) == Denoted(name).definition.function.parameters.required

\* the keys of an argument bag (an absent bag has none)
Keys(args) ==
  IF args.t = "object" THEN {args.props[i].k : i \in 1..Len(args.props)} ELSE {}

Range(seq) == {seq[i] : i \in 1..Len(seq)}

IsCallReply == reply.op = "call"
IsFault(code) ==
  IsCallReply /\ reply.outcome.kind = "McpError" /\ reply.outcome.code = code
IsEnvelope == IsCallReply /\ reply.outcome.kind = "result"
IsErrorEnvelope ==
  IsEnvelope /\ "isError" \in DOMAIN reply.outcome.envelope
             /\ reply.outcome.envelope.isError = TRUE
IsNormalEnvelope == IsEnvelope /\ "isError" \notin DOMAIN reply.outcome.envelope

\* exactly one content item, of type text
OneTextItem(envelope) ==
  /\ Len(envelope.content) = 1
  /\ envelope.content[1].type = "text"

ReplyText == reply.outcome.envelope.content[1].text

----------------------------------------------------------------------------
(* Properties of the dispatcher *)

C2_UnknownNameIsMethodNotFound ==
  (IsCallReply /\ reply.name \notin RegistryNames)
  => /\ reply.outcome = McpError("MethodNotFound", "Unknown tool: " \o reply.name)
     /\ ~reply.invoked

\* an unknown name, called without arguments on the empty Registry
C2_Witness ==
  /\ tools = EmptyRegistry
  /\ IsFault("MethodNotFound")
  /\ reply.name = "get_all_products"
  /\ reply.args = Undefined

\* the first name of the required list that is not a key of the bag
FirstMissingName(name, args) ==
  LET required == RequiredOf(name) IN
  required[CHOOSE i \in 1..Len(required) :
             /\ required[i] \notin Keys(args)
             /\ \A j \in 1..(i - 1) : required[j] \in Keys(args)]

\* C3: a call to a descriptor with a nonempty required list, with an
\* argument bag that lacks a required name, ends in the InvalidParams fault
\* naming the first missing name in the order of the required list, and the
\* operation is not invoked.
C3_FirstMissingIsInvalidParams ==
  (/\ IsCallReply
   /\ reply.name \in RegistryNames
   /\ reply.args.t = "object"
   /\ RequiredOf(reply.name) # <<>>
   /\ ~(Range(RequiredOf(reply.name)) \subseteq Keys(reply.args)))
  => /\ reply.outcome =
          McpError("InvalidParams",
                   "Missing required parameter: "
                     \o FirstMissingName(reply.name, reply.args))
     /\ ~reply.invoked

\* both required names are missing and the first of the list is named
C3_Witness ==
  /\ IsFault("InvalidParams")
  /\ reply.name = "custom_tool"
  /\ reply.args = Obj(<<>>)
  /\ reply.outcome.message = "Missing required parameter: store_Hash"

\* the operation returned an object whose error field is a message
ReturnedFailure ==
  /\ IsCallReply
  /\ reply.settled.kind = "returned"
  /\ HasOwn(reply.settled.value, "error")
  /\ Get(reply.settled.value, "error").t = "string"
  /\ Get(reply.settled.value, "error").s # ""

\* C4: when the operation returns an object carrying an error message, the
\* call is answered with a response, not a fault: isError is true and the
\* text is "Error: " followed by that message.
C4_FailureValueIsErrorEnvelope ==
  ReturnedFailure
  => /\ IsErrorEnvelope
     /\ reply.outcome.envelope.content =
          <<[type |-> "text",
             text |-> "Error: " \o Get(reply.settled.value, "error").s]>>

\* a shipped operation reported an upstream 401 as a failure value
C4_Witness ==
  /\ ReturnedFailure
  /\ reply.name = "get_all_customers"
  /\ reply.fetched = Response(401, "Unauthorized", Html401Body)
  /\ IsErrorEnvelope

\* C5: when the operation throws, that call ends in the InternalError
\* fault whose message carries the thrown message; the fault ends that call
\* only: its slot is free again, the other calls in flight and the Registry
\* are as they were.
C5_ThrowIsInternalError ==
  /\ []((IsCallReply /\ reply.settled.kind = "threw")
        => reply.outcome =
             McpError("InternalError", "API error: " \o reply.settled.message))
  /\ [][\A c \in CallIds :
          (calls[c].state = "awaiting" /\ calls'[c] = Idle
           /\ reply'.op = "call" /\ reply'.outcome.kind = "McpError")
          => /\ tools' = tools
             /\ \A d \in CallIds \ {c} : calls'[d] = calls[d]]_vars

\* after a call ended in InternalError the same server answered a later call
C5_Witness ==
  /\ faulted
  /\ IsNormalEnvelope
  /\ reply.name = "custom_tool"
  /\ tools = ExtendedRegistry

\* C6: the text of a normal envelope: "Found N items:\n" and the
\* pretty-printed payload for an array of length N; the same prefix and the
\* pretty-printed whole object for an object whose data is an array of
\* length N (0 included); a string verbatim; the pretty-printed object for
\* any other object; the string conversion for a number, boolean or null.
C6_FormattingLaw ==
  IsNormalEnvelope =>
    LET v == reply.settled.value
        found(n) == "Found " \o ToString(n) \o " items:\n"
    IN /\ v.t = "array" => ReplyText = found(Len(v.items)) \o JSONStringify(v)
       /\ (v.t = "object" /\ Get(v, "data").t = "array")
            => ReplyText = found(Len(Get(v, "data").items)) \o JSONStringify(v)
       /\ (v.t = "object" /\ Get(v, "data").t # "array")
            => ReplyText = JSONStringify(v)
       /\ v.t = "string" => ReplyText = v.s
       /\ v.t = "number" => ReplyText = ToString(v.n)
       /\ v.t = "boolean" => ReplyText = (IF v.b THEN "true" ELSE "false")
       /\ v.t = "null" => ReplyText = "null"
       /\ v = EmptySentinel
            => ReplyText = "Found 0 items:\n{\n  \"data\": [],\n  \"meta\": {\n    \"total\": 0\n  }\n}"
       /\ v = ListTwo
            => ReplyText = "Found 2 items:\n[\n  {\n    \"id\": 1\n  },\n  {\n    \"id\": 2\n  }\n]"

\* an object whose data array is empty was answered with the count 0
C6_Witness ==
  /\ IsNormalEnvelope
  /\ reply.settled.value = EmptySentinel
  /\ reply.fetched = Response(200, "OK", EmptyBody)

\* C7: in a normal envelope hasData is the boolean "the payload is an array
\* or has a data field", toolName is the requested name and resultType the
\* type tag of the payload; {data: [{id: 1}]} gives "Found 1 items:\n" and
\* the pretty-printed whole object, no isError, and hasData identical to true.
C7_MetadataHasDataBoolean ==
  IsNormalEnvelope =>
    LET v == reply.settled.value
        meta == reply.outcome.envelope._meta
    IN /\ meta.hasData = Bool(v.t = "array" \/ HasOwn(v, "data"))
       /\ meta.toolName = reply.name
       /\ meta.resultType = TypeOf(v)
       /\ v = DataOne
            => ReplyText = "Found 1 items:\n{\n  \"data\": [\n    {\n      \"id\": 1\n    }\n  ]\n}"

\* C8: every business-failure response carries the _meta block with the
\* called tool as toolName, resultType "object", hasData false and a
\* timestamp.
C8_ErrorEnvelopeHasMeta ==
  IsErrorEnvelope =>
    /\ "_meta" \in DOMAIN reply.outcome.envelope
    /\ reply.outcome.envelope._meta.toolName = reply.name
    /\ reply.outcome.envelope._meta.resultType = "object"
    /\ reply.outcome.envelope._meta.hasData = Bool(FALSE)
    /\ "timestamp" \in DOMAIN reply.outcome.envelope._meta

\* the entry the list operation gives for a descriptor
Listed(tool) ==
  [name |-> tool.definition.function.name,
   description |-> tool.definition.function.description,
   inputSchema |-> tool.definition.function.parameters]

\* C9: the list operation returns one {name, description, inputSchema}
\* entry per descriptor, in Registry order; a list call following a list
\* call returns the same content; no step changes the Registry.
C9_ListMirrorsRegistry ==
  /\ [](reply.op = "list"
        => /\ Len(reply.tools) = Len(tools)
           /\ \A i \in 1..Len(tools) : reply.tools[i] = Listed(tools[i]))
  /\ [][/\ tools' = tools
        /\ (reply.op = "list" /\ reply'.op = "list") => reply'.tools = reply.tools]_vars

\* the four descriptors listed, after a tool call had ended in a fault
C9_Witness ==
  /\ reply.op = "list"
  /\ Len(reply.tools) = 4
  /\ reply.tools[4].name = "custom_tool"
  /\ faulted

\* C10: each of the three operations returns {data: [], meta: {total: 0}}
\* for a 2xx response whose body is empty or blank, and the call is
\* answered "Found 0 items:" with no isError.
C10_EmptyBodyLaw ==
  (/\ IsCallReply
   /\ reply.fetched.kind = "response"
   /\ Ok(reply.fetched)
   /\ reply.fetched.body \in {EmptyBody, BlankBody})
  => /\ reply.settled = Returned(EmptySentinel)
     /\ IsNormalEnvelope
     /\ ReplyText = "Found 0 items:\n" \o JSONStringify(EmptySentinel)

----------------------------------------------------------------------------
(* Properties of the operations *)

\* the label an operation puts in its failure message
OperationLabel(name) ==
  CASE name = "get_all_products" -> "products"
    [] name = "get_all_orders" -> "orders"
    [] name = "get_all_customers" -> "customers"

ShippedNames == {"get_all_products", "get_all_orders", "get_all_customers"}

\* a call that was answered after the upstream gave an HTTP response
IsUpstreamReply ==
  /\ IsCallReply
  /\ reply.invoked
  /\ reply.name \in ShippedNames
  /\ reply.fetched.kind = "response"

\* the texts an envelope can carry that hold "Authentication failed"
AuthenticationFailedTexts ==
  {"Error: An error occurred while getting all " \o label \o ": " \o lead
     \o "Authentication failed" \o tail :
     label \in {"products", "orders", "customers"},
     lead \in {"", "HTTP 401: ", "BigCommerce API Error: 401 Unauthorized. ",
               "BigCommerce API Error: Unknown error. "},
     tail \in {"", " - invalid API token"}}

\* C11: for every operation, an upstream response of status 401 whose body
\* is HTML (starts with "<") is answered with an isError envelope, not a
\* protocol fault, whose text contains "Authentication failed".
C11_Html401IsAuthenticationFailed ==
  (/\ IsUpstreamReply
   /\ reply.fetched.status = 401
   /\ StartsWithLt(Trim(reply.fetched.body)))
  => /\ IsErrorEnvelope
     /\ ReplyText \in AuthenticationFailedTexts

\* C12: for every operation, a non-2xx upstream response makes the operation
\* return (not throw) a failure value whose message is the body's JSON text
\* when the body parses as JSON, and "HTTP {status}: {body text, or the
\* status phrase when the text is empty}" when it does not.
C12_NonOkClassifiedByBody ==
  (IsUpstreamReply /\ ~Ok(reply.fetched))
  => reply.settled =
       Returned(Failure(OperationLabel(reply.name),
         IF JSONParse(reply.fetched.body).ok
           THEN JSONStringifyCompact(JSONParse(reply.fetched.body).value)
           ELSE "HTTP " \o NumToString(reply.fetched.status) \o ": "
                \o (IF reply.fetched.body # "" THEN reply.fetched.body
                                               ELSE reply.fetched.statusText)))

\* the argument bag {customer_id: 3}
CustomerIdThree == Obj(<<Prop("customer_id", Num(3))>>)

\* a get_all_orders call with the bag {customer_id: 3}, suspended in fetch()
OrdersCustomerIdThree(c) ==
  /\ calls[c].state = "awaiting"
  /\ calls[c].name = "get_all_orders"
  /\ calls[c].args = CustomerIdThree

\* C13: get_all_orders called with {customer_id: 3} fetches a URL whose
\* query string contains customer_id=3 and no other key.
C13_OrdersQueryOnlyCustomerId ==
  \A c \in CallIds :
    OrdersCustomerIdThree(c)
    => calls[c].url = baseUrl \o "/envstore/v2/orders?customer_id=3"

\* C13 as the code has it: get_all_orders called with {customer_id: 3}
\* fetches a URL whose query string is customer_id=3 followed by the paging
\* defaults limit=50 and page=1; no other filter key is present.
C13_OrdersQueryCustomerIdAndPaging ==
  \A c \in CallIds :
    OrdersCustomerIdThree(c)
    => calls[c].url
         = baseUrl \o "/envstore/v2/orders?customer_id=3&limit=50&page=1"

C13_Witness ==
  \E c \in CallIds : OrdersCustomerIdThree(c)

\* C14: store_Hash is a required parameter of the three shipped tools: a call
\* to one of them without store_Hash is rejected with the InvalidParams fault
\* that names store_Hash, and the operation is not invoked.
C14_StoreHashIsRequired ==
  (/\ IsCallReply
   /\ reply.name \in ShippedNames \cap RegistryNames
   /\ "store_Hash" \notin Keys(reply.args))
  => /\ IsFault("InvalidParams")
     /\ reply.outcome.message = "Missing required parameter: store_Hash"
     /\ ~reply.invoked

----------------------------------------------------------------------------
(* The start of the process: run() *)

SERVER_NAME == "bigcommerce-api-mcp"

\* what discoverTools() resolves to when it succeeds
Discovered == {ShippedRegistry}

\* process.argv holds --streamable-http and/or --sse, or neither
InitRun ==
  /\ tools = EmptyRegistry
  /\ calls = [c \in CallIds |-> Idle]
  /\ reply = NoReply
  /\ faulted = FALSE
  /\ \E h \in BOOLEAN, e \in BOOLEAN :
       proc = [pc |-> "discovering", isStreamableHttp |-> h, isSSE |-> e,
               discovery |-> "pending", exit |-> NoExit, activated |-> <<>>,
               env |-> [MCP_AUTH_TOKEN |-> Undefined], server |-> "none"]
  /\ transports = EmptyMap
  /\ servers = EmptyMap
  /\ conns = EmptyMap
  /\ posted = NoReply
  /\ requests = EmptyMap

\* setupStreamableHttp, setupSSE or setupStdio is called: the binding listens
Activate(binding) ==
  [proc EXCEPT !.pc = "serving", !.activated = Append(@, binding),
               !.server = IF binding = "stdio" THEN "connected" ELSE @]

\* process.exit(code)
Exit(code) == [proc EXCEPT !.pc = "exited", !.exit = code]

\* `await discoverTools()` resolves to a Registry (line 361)
DiscoverySucceeds(registry) ==
  /\ proc.pc = "discovering"
  /\ tools' = registry
  /\ proc' = [proc EXCEPT !.pc = "try", !.discovery = "ok"]
  /\ UNCHANGED <<calls, reply, faulted, transports, servers, conns, posted, requests>>

\* `await discoverTools()` rejects: control goes to the catch (line 377)
DiscoveryFails ==
  /\ proc.pc = "discovering"
  /\ proc' = [proc EXCEPT !.pc = "catch", !.discovery = "failed"]
  /\ UNCHANGED <<tools, calls, reply, faulted, transports, servers, conns, posted,
                 requests>>

\* the rest of the try block (lines 364-376)
TryStart ==
  /\ proc.pc = "try"
  /\ proc' = IF proc.isStreamableHttp /\ proc.isSSE THEN Exit(1)
             ELSE IF proc.isStreamableHttp THEN Activate("streamable-http")
             ELSE IF proc.isSSE THEN Activate("sse")
             ELSE Activate("stdio")
  /\ UNCHANGED <<tools, calls, reply, faulted, transports, servers, conns, posted,
                 requests>>

\* a catch block for which every discovery failure is fatal
CatchStartFatal ==
  /\ proc.pc = "catch"
  /\ proc' = Exit(1)
  /\ UNCHANGED <<tools, calls, reply, faulted, transports, servers, conns, posted,
                 requests>>

\* the catch block (lines 377-392)
CatchStart ==
  /\ proc.pc = "catch"
  /\ IF proc.isStreamableHttp \/ proc.isSSE
       THEN /\ tools' = EmptyRegistry
            /\ proc' = IF proc.isStreamableHttp THEN Activate("streamable-http")
                                                ELSE Activate("sse")
       ELSE /\ proc' = Exit(1)
            /\ UNCHANGED tools
  /\ UNCHANGED <<calls, reply, faulted, transports, servers, conns, posted, requests>>

\* the binding that is listening
Binding == proc.activated[Len(proc.activated)]
Serving == proc.pc = "serving"

\* GET /health of the streamable-HTTP binding (lines 176-184) and of the SSE
\* binding (lines 309-318)
Health ==
  /\ Serving
  /\ Binding \in {"streamable-http", "sse"}
  /\ reply' = [op |-> "health", status |-> 200,
               body |-> IF Binding = "sse"
                          THEN [status |-> "healthy", server |-> SERVER_NAME,
                                transport |-> "sse",
                                activeSessions |-> Cardinality(DOMAIN transports)]
                          ELSE [status |-> "healthy", server |-> SERVER_NAME,
                                capabilities |-> <<"tools">>]]
  /\ UNCHANGED <<tools, calls, faulted>>
  /\ UNCHANGED bindingVars

\* SIGINT in the pipe binding (lines 346-347): the handler calls
\* server.close() and waits for it
Sigint ==
  /\ proc.pc \in {"serving", "interrupted"}
  /\ Binding = "stdio"
  /\ proc' = [proc EXCEPT !.pc = "interrupted",
                          !.server = IF @ = "connected" THEN "closing" ELSE @]
  /\ UNCHANGED <<tools, calls, reply, faulted, transports, servers, conns, posted,
                 requests>>

\* server.close() completes
StdioCloseResolves ==
  /\ proc.pc = "interrupted"
  /\ proc.server = "closing"
  /\ proc' = [proc EXCEPT !.server = "closed"]
  /\ UNCHANGED <<tools, calls, reply, faulted, transports, servers, conns, posted,
                 requests>>

\* server.close() rejects: the handler ends without process.exit(0); the
\* unhandled rejection ends the process with code 1, or is only reported
StdioCloseRejects(crash) ==
  /\ proc.pc = "interrupted"
  /\ proc.server = "closing"
  /\ proc' = IF crash THEN [proc EXCEPT !.pc = "exited", !.exit = 1,
                                        !.server = "close failed"]
                      ELSE [proc EXCEPT !.pc = "serving", !.server = "connected"]
  /\ UNCHANGED <<tools, calls, reply, faulted, transports, servers, conns, posted,
                 requests>>

\* a handler that exits without waiting for server.close()
SigintExitsEarly ==
  /\ proc.pc = "interrupted"
  /\ proc' = Exit(0)
  /\ UNCHANGED <<tools, calls, reply, faulted, transports, servers, conns, posted,
                 requests>>

\* the handler resumes after `await server.close()`: process.exit(0) (line 348)
SigintExits ==
  /\ proc.pc = "interrupted"
  /\ proc.server = "closed"
  /\ proc' = Exit(0)
  /\ UNCHANGED <<tools, calls, reply, faulted, transports, servers, conns, posted,
                 requests>>

NextRun ==
  \/ \E registry \in Discovered : DiscoverySucceeds(registry)
  \/ DiscoveryFails
  \/ TryStart
  \/ CatchStart
  \/ Sigint
  \/ StdioCloseResolves
  \/ \E crash \in BOOLEAN : StdioCloseRejects(crash)
  \/ SigintExits
  \/ Health
  \/ Serving /\ ListTools
  \/ \E c \in CallIds, name \in ToolNames, args \in ArgumentBags :
       Serving /\ CallTool(c, name, args)
  \/ \E c \in CallIds, fetched \in Upstream : Serving /\ UpstreamSettles(c, fetched)

SpecRun == InitRun /\ [][NextRun]_vars

----------------------------------------------------------------------------
(* Properties of the start of the process *)

DiscoveryFailed == proc.discovery = "failed"
BothFlags == proc.isStreamableHttp /\ proc.isSSE
NoFlag == ~proc.isStreamableHttp /\ ~proc.isSSE
OneFlag == proc.isStreamableHttp # proc.isSSE
FlagBinding == IF proc.isStreamableHttp THEN "streamable-http" ELSE "sse"

\* C15: when discovery fails, a process started without flags exits with
\* code 1 and never serves anything; a process started with --streamable-http
\* or with --sse does not exit: its catch block activates that binding with
\* the empty Registry, GET /health answers 200, the list is empty and every
\* tool call is answered with MethodNotFound.
C15_DiscoveryFailure ==
  /\ [](DiscoveryFailed /\ NoFlag
          => /\ proc.activated = <<>>
             /\ reply = NoReply
             /\ proc.pc = "exited" => proc.exit = 1)
  /\ [](DiscoveryFailed /\ OneFlag
          => /\ proc.exit = NoExit
             /\ Serving => tools = EmptyRegistry /\ proc.activated = <<FlagBinding>>
             /\ reply.op = "health" => reply.status = 200
             /\ reply.op = "list" => reply.tools = <<>>
             /\ reply.op = "call" => IsFault("MethodNotFound") /\ ~reply.invoked)
  /\ [][DiscoveryFailed /\ proc.pc = "catch"
          => IF NoFlag THEN proc'.pc = "exited" ELSE proc'.pc = "serving"]_vars

\* a degraded HTTP or SSE server has answered a tool call
C15_Witness ==
  /\ DiscoveryFailed
  /\ OneFlag
  /\ Serving
  /\ IsFault("MethodNotFound")

\* C22: in the pipe binding the process exits with code 0 only from the
\* interrupt handler and only after server.close() has completed: it never has
\* exit code 0 while the server is not closed.
C22_SigintClosesThenExits ==
  /\ [](proc.exit = 0 => proc.server = "closed" /\ proc.activated = <<"stdio">>)
  /\ [][proc'.exit = 0 /\ proc.exit # 0
          => proc.pc = "interrupted" /\ proc.server = "closed"]_vars

\* the interrupted process has exited with code 0
C22_Witness ==
  /\ proc.pc = "exited"
  /\ proc.exit = 0

\* the run is over: the process exited or a binding is listening
Started == proc.pc \in {"serving", "exited"}

\* C16: with both --streamable-http and --sse the process exits with code 1
\* and no binding is ever activated, whether discovery succeeds or fails; in
\* every other run exactly one binding is activated, exactly once.
C16_BothFlagsExitElseOneBinding ==
  IF BothFlags
    THEN /\ proc.activated = <<>>
         /\ Started => proc.pc = "exited" /\ proc.exit = 1
    ELSE /\ Len(proc.activated) <= 1
         /\ Started => Len(proc.activated) = 1

----------------------------------------------------------------------------
(* The SSE binding: setupSSE *)

ConnIds == 1..MaxSessions

\* transport.sessionId of the transport of the n-th GET /sse (a fresh UUID)
SessionIdOf(n) == "session-" \o ToString(n)

\* req.query.sessionId of a POST /messages: an allocated identifier, one that
\* was never allocated, or the name of a member of Object.prototype
PostedIds == {SessionIdOf(n) : n \in ConnIds} \cup {"no-such-session", "constructor"}

SSEServerTransport(n) ==
  [t |-> "object", class |-> "SSEServerTransport", sessionId |-> SessionIdOf(n)]
ProtocolServer(n) == [t |-> "object", class |-> "Server", conn |-> n]

\* map[key] = value, delete map[key], map[key] on an object used as a map
Put(map, key, value) ==
  [k \in DOMAIN map \cup {key} |-> IF k = key THEN value ELSE map[k]]
Delete(map, key) == [k \in DOMAIN map \ {key} |-> map[k]]
Lookup(map, key) ==
  IF key \in DOMAIN map THEN map[key]
  ELSE IF key \in ObjectPrototypeKeys
    THEN [t |-> IF key = "__proto__" THEN "object" ELSE "function",
          class |-> "Object.prototype", member |-> key]
  ELSE Undefined

Unborn == [state |-> "unborn"]

\* req.headers.authorization of a GET /sse or POST /messages, and
\* process.env.MCP_AUTH_TOKEN of the process
SseAuthorizations == {Undefined, Str("Bearer s3cret")}
SseAuthTokens == {Undefined, Str("s3cret")}

\* setupSSE was called with the Registry: the maps are empty
InitSSE ==
  /\ tools \in {ShippedRegistry, EmptyRegistry}
  /\ calls = [c \in CallIds |-> Idle]
  /\ reply = NoReply
  /\ faulted = FALSE
  /\ \E token \in SseAuthTokens :
       proc = [pc |-> "serving", isStreamableHttp |-> FALSE, isSSE |-> TRUE,
               discovery |-> IF tools = EmptyRegistry THEN "failed" ELSE "ok",
               exit |-> NoExit, activated |-> <<"sse">>,
               env |-> [MCP_AUTH_TOKEN |-> token], server |-> "none"]
  /\ transports = EmptyMap
  /\ servers = EmptyMap
  /\ conns = [n \in ConnIds |-> Unborn]
  /\ posted = NoReply
  /\ requests = EmptyMap

\* GET /sse (lines 269-295): a server and a transport are created, entered
\* in the maps under the transport's sessionId, and connected; the route
\* has no middleware and reads no header of the request
OpenSSE(n, authHeader) ==
  /\ conns[n] = Unborn
  /\ \A m \in 1..(n - 1) : conns[m] # Unborn
  /\ transports' = Put(transports, SessionIdOf(n), SSEServerTransport(n))
  /\ servers' = Put(servers, SessionIdOf(n), ProtocolServer(n))
  /\ conns' = [conns EXCEPT ![n] = [state |-> "open", server |-> "connected",
                                    authorization |-> authHeader]]
  /\ UNCHANGED <<tools, calls, reply, faulted, proc, posted, requests>>

\* POST /messages (lines 297-307), a route without middleware as well
PostMessages(sessionId, authHeader) ==
  LET transport == Lookup(transports, sessionId)
      server == Lookup(servers, sessionId)
  IN
  /\ posted' =
       IF Truthy(transport) /\ Truthy(server)
         THEN IF transport.class = "SSEServerTransport"
                THEN \* transport.handlePostMessage(req, res) takes the message
                     [op |-> "post", sessionId |-> sessionId, outcome |-> "handled",
                      status |-> 202, body |-> "Accepted", transport |-> transport,
                      authorization |-> authHeader]
                ELSE \* the await throws in the async route: no answer is written
                     [op |-> "post", sessionId |-> sessionId, outcome |-> "threw",
                      status |-> 0,
                      body |-> "TypeError: transport.handlePostMessage is not a function",
                      transport |-> Undefined, authorization |-> authHeader]
         ELSE [op |-> "post", sessionId |-> sessionId, outcome |-> "answered",
               status |-> 400, body |-> "No transport/server found for sessionId",
               transport |-> Undefined, authorization |-> authHeader]
  /\ UNCHANGED <<tools, calls, reply, faulted, proc, transports, servers, conns,
                 requests>>

\* the "close" event of the response of GET /sse (lines 288-290): the
\* transport entry is deleted and server.close() is awaited
ConnectionCloses(n) ==
  /\ conns[n].state = "open"
  /\ transports' = Delete(transports, SessionIdOf(n))
  /\ conns' = [conns EXCEPT ![n] = [state |-> "closing", server |-> "closing"]]
  /\ UNCHANGED <<tools, calls, reply, faulted, proc, servers, posted, requests>>

\* `await server.close()` resolves: the server entry is deleted (line 291)
ServerCloseResolves(n) ==
  /\ conns[n].state = "closing"
  /\ servers' = Delete(servers, SessionIdOf(n))
  /\ conns' = [conns EXCEPT ![n] = [state |-> "closed", server |-> "closed"]]
  /\ UNCHANGED <<tools, calls, reply, faulted, proc, transports, posted, requests>>

\* `await server.close()` rejects: the handler ends there, line 291 is not run
ServerCloseRejects(n) ==
  /\ conns[n].state = "closing"
  /\ conns' = [conns EXCEPT ![n] = [state |-> "closed", server |-> "close failed"]]
  /\ UNCHANGED <<tools, calls, reply, faulted, proc, transports, servers, posted,
                 requests>>

\* transport.handlePostMessage took the message of the last POST /messages:
\* the server of the session answers it on the event stream
MessageHandled == posted # NoReply /\ posted.outcome = "handled"

NextSSE ==
  \/ \E n \in ConnIds, authHeader \in SseAuthorizations : OpenSSE(n, authHeader)
  \/ \E sessionId \in PostedIds, authHeader \in SseAuthorizations :
       PostMessages(sessionId, authHeader)
  \/ MessageHandled /\ ListTools
  \/ \E n \in ConnIds : ConnectionCloses(n)
  \/ \E n \in ConnIds : ServerCloseResolves(n)
  \/ \E n \in ConnIds : ServerCloseRejects(n)
  \/ Health

SpecSSE == InitSSE /\ [][NextSSE]_vars

----------------------------------------------------------------------------
(* Properties of the SSE binding *)

\* the identifier was allocated by a GET /sse whose connection is still open
LiveSession(sessionId) ==
  \E n \in ConnIds : SessionIdOf(n) = sessionId /\ conns[n].state = "open"

\* C17: a POST /messages with the identifier of a live session is handed to
\* the transport the GET /sse of that session created and to no other; with
\* an identifier that is unknown, or whose connection has closed, it is
\* answered 400 and handed to no transport.
C17_PostMessagesRouting ==
  [][posted' # posted =>
       IF LiveSession(posted'.sessionId)
         THEN /\ posted'.outcome = "handled"
              /\ posted'.transport = transports[posted'.sessionId]
              /\ posted'.transport.sessionId = posted'.sessionId
         ELSE /\ posted'.outcome = "answered"
              /\ posted'.status = 400
              /\ posted'.transport = Undefined]_vars

\* C18: once the close handler of a session has run to its end, neither map
\* holds an entry for the session and its server is closed, also when closing
\* the server failed; and no step of a session's close handler changes the
\* entries or the server of another session.
C18_ClosedSessionIsCleanedUp ==
  /\ [](\A n \in ConnIds :
          conns[n].state = "closed"
          => /\ SessionIdOf(n) \notin DOMAIN transports
             /\ SessionIdOf(n) \notin DOMAIN servers
             /\ conns[n].server = "closed")
  /\ [][\A n \in ConnIds :
          conns[n].state \in {"open", "closing"} /\ conns'[n] # conns[n]
          => \A m \in ConnIds \ {n} :
               /\ conns'[m] = conns[m]
               /\ Lookup(transports', SessionIdOf(m)) = Lookup(transports, SessionIdOf(m))
               /\ Lookup(servers', SessionIdOf(m)) = Lookup(servers, SessionIdOf(m))]_vars

----------------------------------------------------------------------------
(* The streamable-HTTP binding: authenticateRequest and POST /mcp *)

RequestIds == 1..MaxRequests

\* the Authorization headers of the requests, each cut after its first
\* seven characters
AuthorizationParts ==
  {<<"Bearer ", "s3cret">>, <<"Bearer ", "wrong">>, <<"bearer ", "s3cret">>,
   <<"Basic s", "3cret">>, <<"s3cret", "">>}

\* req.headers.authorization: absent, or one of the texts
Authorizations == {Undefined} \cup {Str(p[1] \o p[2]) : p \in AuthorizationParts}

\* process.env.MCP_AUTH_TOKEN: unset, empty, or a secret
AuthTokens == {Undefined, Str(""), Str("s3cret")}

PartsOf(text) == CHOOSE p \in AuthorizationParts : p[1] \o p[2] = text

\* text.startsWith(prefix) for a prefix of seven characters, text.substring(7)
StartsWith7(text, prefix) == PartsOf(text)[1] = prefix
Substring7(text) == PartsOf(text)[2]

NewRequest == [state |-> "new"]

Unauthorized(header, message) ==
  [state |-> "rejected", authorization |-> header, status |-> 401,
   body |-> [jsonrpc |-> "2.0", error |-> [code |-> -32001, message |-> message],
             id |-> Null]]

\* setupStreamableHttp was called with the Registry: no request yet
InitHttp ==
  /\ tools = ShippedRegistry
  /\ calls = [c \in CallIds |-> Idle]
  /\ reply = NoReply
  /\ faulted = FALSE
  /\ \E token \in AuthTokens :
       proc = [pc |-> "serving", isStreamableHttp |-> TRUE, isSSE |-> FALSE,
               discovery |-> "ok", exit |-> NoExit,
               activated |-> <<"streamable-http">>,
               env |-> [MCP_AUTH_TOKEN |-> token], server |-> "none"]
  /\ transports = EmptyMap
  /\ servers = EmptyMap
  /\ conns = EmptyMap
  /\ posted = NoReply
  /\ requests = [r \in RequestIds |-> NewRequest]

\* a gate that lets every request with some Bearer token through
authenticateRequestAnyBearer(r, authHeader) ==
  LET expectedToken == proc.env.MCP_AUTH_TOKEN IN
  /\ requests[r] = NewRequest
  /\ \A q \in 1..(r - 1) : requests[q] # NewRequest
  /\ requests' = [requests EXCEPT ![r] =
       IF ~Truthy(expectedToken)
         THEN [state |-> "admitted", authorization |-> authHeader]
       ELSE IF ~Truthy(authHeader) \/ ~StartsWith7(authHeader.s, "Bearer ")
         THEN Unauthorized(authHeader,
                "Unauthorized: Missing or invalid authorization header")
       ELSE [state |-> "admitted", authorization |-> authHeader]]
  /\ UNCHANGED <<tools, calls, reply, faulted, proc, transports, servers, conns,
                 posted>>

\* the middleware of POST /mcp (lines 124-157): next() or a 401 answer
authenticateRequest(r, authHeader) ==
  LET expectedToken == proc.env.MCP_AUTH_TOKEN IN
  /\ requests[r] = NewRequest
  /\ \A q \in 1..(r - 1) : requests[q] # NewRequest
  /\ requests' = [requests EXCEPT ![r] =
       IF ~Truthy(expectedToken)
         THEN [state |-> "admitted", authorization |-> authHeader]
       ELSE IF ~Truthy(authHeader) \/ ~StartsWith7(authHeader.s, "Bearer ")
         THEN Unauthorized(authHeader,
                "Unauthorized: Missing or invalid authorization header")
       ELSE IF Str(Substring7(authHeader.s)) # expectedToken
         THEN Unauthorized(authHeader, "Unauthorized: Invalid token")
       ELSE [state |-> "admitted", authorization |-> authHeader]]
  /\ UNCHANGED <<tools, calls, reply, faulted, proc, transports, servers, conns,
                 posted>>

\* the route of POST /mcp up to `await server.connect(transport)` (lines
\* 199-222): a server and a transport are constructed for this request and
\* the "close" handler of the response is registered
PostMcp(r) ==
  /\ requests[r].state = "admitted"
  /\ requests' = [requests EXCEPT ![r] =
       [state |-> "serving", main |-> "connecting", conn |-> "open",
        release |-> "none",
        server |-> [class |-> "Server", request |-> r],
        transport |-> [class |-> "StreamableHTTPServerTransport", request |-> r],
        transportClosed |-> 0, serverClosed |-> 0, status |-> 0]]
  /\ UNCHANGED <<tools, calls, reply, faulted, proc, transports, servers, conns,
                 posted>>

InRoute(r, main) == requests[r].state = "serving" /\ requests[r].main = main

\* res.status(code).json(..): nothing is delivered on a closed connection
Respond(request, code) ==
  IF request.conn = "open" /\ request.status = 0 THEN code ELSE request.status

\* `await server.connect(transport)` resolves: handleRequest is called
McpConnectResolves(r) ==
  /\ InRoute(r, "connecting")
  /\ requests' = [requests EXCEPT ![r].main = "handling"]
  /\ UNCHANGED <<tools, calls, reply, faulted, proc, transports, servers, conns,
                 posted>>

\* a catch block that also closes the transport and the server
McpCatchReleasing(r, main) ==
  /\ InRoute(r, main)
  /\ requests' = [requests EXCEPT ![r].main = "done",
                                  ![r].status = Respond(requests[r], 500),
                                  ![r].transportClosed = @ + 1,
                                  ![r].serverClosed = @ + 1]
  /\ UNCHANGED <<tools, calls, reply, faulted, proc, transports, servers, conns,
                 posted>>

\* the catch block (lines 226-237) after connect or handleRequest rejected:
\* it answers 500 unless headers were sent, and closes nothing
McpCatch(r, main) ==
  /\ InRoute(r, main)
  /\ requests' = [requests EXCEPT ![r].main = "done",
                                  ![r].status = Respond(requests[r], 500)]
  /\ UNCHANGED <<tools, calls, reply, faulted, proc, transports, servers, conns,
                 posted>>

\* `await transport.handleRequest(req, res, req.body)` resolves: the
\* transport has written the response
McpHandleResolves(r) ==
  /\ InRoute(r, "handling")
  /\ requests' = [requests EXCEPT ![r].main = "done",
                                  ![r].status = Respond(requests[r], 200)]
  /\ UNCHANGED <<tools, calls, reply, faulted, proc, transports, servers, conns,
                 posted>>

\* the "close" event of the response, after it was flushed or after the
\* client went away (lines 219-220): transport.close() is called
ResponseCloses(r) ==
  /\ requests[r].state = "serving"
  /\ requests[r].conn = "open"
  /\ requests' = [requests EXCEPT ![r].conn = "closed",
                                  ![r].release = "closing transport",
                                  ![r].transportClosed = @ + 1]
  /\ UNCHANGED <<tools, calls, reply, faulted, proc, transports, servers, conns,
                 posted>>

\* `await transport.close()` resolves: server.close() is called (line 221)
McpTransportClosed(r) ==
  /\ requests[r].state = "serving"
  /\ requests[r].release = "closing transport"
  /\ requests' = [requests EXCEPT ![r].release = "closing server",
                                  ![r].serverClosed = @ + 1]
  /\ UNCHANGED <<tools, calls, reply, faulted, proc, transports, servers, conns,
                 posted>>

\* `await server.close()` resolves: the close handler is over
McpServerClosed(r) ==
  /\ requests[r].state = "serving"
  /\ requests[r].release = "closing server"
  /\ requests' = [requests EXCEPT ![r].release = "released"]
  /\ UNCHANGED <<tools, calls, reply, faulted, proc, transports, servers, conns,
                 posted>>

\* the messages a request body carries to the handlers of its server
McpToolNames == {"get_all_products", "no_such_tool"}
McpArgumentBags == {Obj(<<>>)}
McpUpstream == {Response(200, "OK", DataOneBody), Rejected("fetch failed")}

\* transport.handleRequest hands the message of the body to the handlers
Handling == \E r \in RequestIds : InRoute(r, "handling")

NextHttp ==
  \/ \E r \in RequestIds, authHeader \in Authorizations : authenticateRequest(r, authHeader)
  \/ \E r \in RequestIds : PostMcp(r)
  \/ \E r \in RequestIds : McpConnectResolves(r)
  \/ \E r \in RequestIds : McpCatch(r, "connecting")
  \/ \E r \in RequestIds : McpCatch(r, "handling")
  \/ \E r \in RequestIds : McpHandleResolves(r)
  \/ \E r \in RequestIds : ResponseCloses(r)
  \/ \E r \in RequestIds : McpTransportClosed(r)
  \/ \E r \in RequestIds : McpServerClosed(r)
  \/ Handling /\ ListTools
  \/ \E c \in CallIds, name \in McpToolNames, args \in McpArgumentBags :
       Handling /\ CallTool(c, name, args)
  \/ \E c \in CallIds, fetched \in McpUpstream : UpstreamSettles(c, fetched)

SpecHttp == InitHttp /\ [][NextHttp]_vars

----------------------------------------------------------------------------
(* Properties of the streamable-HTTP binding *)

IsServing(r) == requests[r].state = "serving"

\* nothing of the request is left to run: the route has ended, the
\* connection is closed and no step of the close handler is pending
Over(r) ==
  /\ IsServing(r)
  /\ requests[r].main = "done"
  /\ requests[r].conn = "closed"
  /\ requests[r].release \notin {"closing transport", "closing server"}

Secret == proc.env.MCP_AUTH_TOKEN
SecretConfigured == Truthy(Secret)

\* the request went through the gate
Admitted(r) == requests[r].state \in {"admitted", "serving"}

\* C20: with a secret configured, a POST /mcp passes the gate only with the
\* Authorization header "Bearer " followed by the secret; any other request
\* is answered 401 with error code -32001, never gets a server, and as long
\* as no request was admitted no handler has run. Without a secret every
\* request passes. A server is only ever constructed for an admitted request.
C20_BearerGate ==
  /\ [](\A r \in RequestIds :
          requests[r].state \in {"admitted", "rejected"}
          => IF SecretConfigured
               THEN IF requests[r].authorization = Str("Bearer " \o Secret.s)
                      THEN requests[r].state = "admitted"
                      ELSE /\ requests[r].state = "rejected"
                           /\ requests[r].status = 401
                           /\ requests[r].body.error.code = -32001
               ELSE requests[r].state = "admitted")
  /\ []((\A r \in RequestIds : ~Admitted(r))
          => reply = NoReply /\ \A c \in CallIds : calls[c] = Idle)
  /\ [][\A r \in RequestIds :
          /\ requests[r].state = "rejected" => requests'[r] = requests[r]
          /\ IsServing(r)' /\ ~IsServing(r) => requests[r].state = "admitted"]_vars

\* a request with a wrong token was turned away while a secret is configured
C20_Witness ==
  /\ SecretConfigured
  /\ \E r \in RequestIds :
       /\ requests[r].state = "rejected"
       /\ requests[r].authorization = Str("Bearer wrong")

----------------------------------------------------------------------------
(* Calls in flight together (streamable-HTTP and SSE bindings) *)

\* the requests that may be suspended in their operation at the same time
InFlightIds == 1..(MaxCalls + 1)

\* {customer_id: 0, status_id: 0, customer_group_id: 0, limit: 0}
ZeroFilters ==
  Obj(<<Prop("customer_id", Num(0)), Prop("status_id", Num(0)),
        Prop("customer_group_id", Num(0)), Prop("limit", Num(0))>>)

ConcurrentNames == ShippedNames \cup {"no_such_tool"}
ConcurrentBags == {Obj(<<>>), ZeroFilters}
ConcurrentUpstream ==
  {Response(200, "OK", DataOneBody), Response(200, "OK", EmptyBody),
   Response(401, "Unauthorized", ProblemBody), Rejected("fetch failed")}

\* setupStreamableHttp was called with the discovered Registry; every request
\* runs the handlers over the same `tools`
InitConcurrent ==
  /\ tools = ShippedRegistry
  /\ calls = [c \in InFlightIds |-> Idle]
  /\ reply = NoReply
  /\ faulted = FALSE
  /\ proc = [pc |-> "serving", isStreamableHttp |-> TRUE, isSSE |-> FALSE,
             discovery |-> "ok", exit |-> NoExit,
             activated |-> <<"streamable-http">>,
             env |-> [MCP_AUTH_TOKEN |-> Undefined], server |-> "none"]
  /\ transports = EmptyMap
  /\ servers = EmptyMap
  /\ conns = EmptyMap
  /\ posted = NoReply
  /\ requests = EmptyMap

NextConcurrent ==
  \/ ListTools
  \/ \E c \in InFlightIds, name \in ConcurrentNames, args \in ConcurrentBags :
       CallTool(c, name, args)
  \/ \E c \in InFlightIds, fetched \in ConcurrentUpstream : UpstreamSettles(c, fetched)

SpecConcurrent == InitConcurrent /\ [][NextConcurrent]_vars

----------------------------------------------------------------------------
(* Properties of calls in flight together *)

\* the outcome of a call that runs alone over the shipped Registry
AloneOutcome(name, args, fetched) ==
  LET begin == CallToolBegin(ShippedRegistry, name, args) IN
  IF begin.kind = "invoke"
    THEN CallToolEnd(name,
           Returned(Settle(ShippedRegistry[begin.tool].function, fetched)))
    ELSE begin

Awaiting(c) == calls[c].state = "awaiting"

\* C21: whatever other calls are in flight, a call is answered with the
\* envelope it would get alone with the same upstream answer; no call
\* changes the Registry; and while a call is suspended in its operation,
\* the list and every other call can still be dispatched, and every
\* suspended call can still be answered.
C21_ConcurrentCallsIsolated ==
  /\ [](IsCallReply
          => reply.outcome = AloneOutcome(reply.name, reply.args, reply.fetched))
  /\ [](\A c \in InFlightIds :
          Awaiting(c)
          => /\ ENABLED ListTools
             /\ \A d \in InFlightIds \ {c} :
                  /\ calls[d] = Idle => ENABLED CallTool(d, "get_all_orders", Obj(<<>>))
                  /\ Awaiting(d)
                       => ENABLED UpstreamSettles(d, Response(200, "OK", DataOneBody)))
  /\ [][tools' = tools]_vars

\* a call was answered while a call to another tool is still suspended
C21_Witness ==
  /\ IsEnvelope
  /\ reply.invoked
  /\ \E c \in InFlightIds : Awaiting(c) /\ calls[c].name # reply.name

----------------------------------------------------------------------------
(* Properties of the dispatcher: order of steps, absent arguments *)

\* C23: the operation is never invoked in a call that ends in MethodNotFound
\* or InvalidParams, and in every other call it is invoked exactly once: each
\* such call has an invocation, and a call suspended in its operation is not
\* invoked again before it is answered.
C23_ResolveCheckInvokeOnce ==
  /\ [](IsCallReply
          => IF IsFault("MethodNotFound") \/ IsFault("InvalidParams")
               THEN ~reply.invoked
               ELSE reply.invoked)
  /\ [][\A c \in CallIds :
          calls[c].state = "awaiting"
          => \/ calls'[c] = calls[c]
             \/ /\ calls'[c] = Idle
                /\ reply'.op = "call"
                /\ reply'.invoked
                /\ reply'.name = calls[c].name]_vars

\* C24: a call without an arguments field to a tool whose required list is
\* not empty is answered with the InvalidParams fault that names the first
\* required parameter, as a call with the empty bag is.
C24_AbsentArgumentsIsInvalidParams ==
  (/\ IsCallReply
   /\ reply.name \in RegistryNames
   /\ reply.args = Undefined
   /\ RequiredOf(reply.name) # <<>>)
  => /\ IsFault("InvalidParams")
     /\ reply.outcome.message
          = "Missing required parameter: " \o RequiredOf(reply.name)[1]

----------------------------------------------------------------------------
(* Registries with an entry without definition, or with a repeated name *)

\* an entry that has an operation but no `definition`
MalformedTool == [function |-> "noDefinition"]

\* a second descriptor named get_all_orders, with another operation and a
\* required parameter
ShadowedOrdersTool ==
  Descriptor("customOperation", "get_all_orders",
             "A later descriptor of the same name.",
             <<"store_Hash">>, <<"store_Hash">>)

MalformedFirstRegistry == <<MalformedTool, ProductsTool>>
MalformedLastRegistry == <<ProductsTool, OrdersTool, MalformedTool>>
DuplicateRegistry == <<OrdersTool, ShadowedOrdersTool, ProductsTool>>

OddRegistries == {MalformedFirstRegistry, MalformedLastRegistry, DuplicateRegistry}

OddNames == {"get_all_products", "get_all_orders", "no_such_tool"}
OddBags == {Obj(<<>>), Obj(<<Prop("store_Hash", Str("abc"))>>)}
OddUpstream ==
  {Response(200, "OK", DataOneBody), Response(200, "OK", EmptyBody),
   Rejected("fetch failed")}

InitRegistry ==
  /\ tools \in OddRegistries
  /\ calls = [c \in CallIds |-> Idle]
  /\ reply = NoReply
  /\ faulted = FALSE
  /\ StdioServing

NextRegistry ==
  \/ ListTools
  \/ \E c \in CallIds, name \in OddNames, args \in OddBags : CallTool(c, name, args)
  \/ \E c \in CallIds, fetched \in OddUpstream : UpstreamSettles(c, fetched)

SpecRegistry == InitRegistry /\ [][NextRegistry]_vars

----------------------------------------------------------------------------
(* Properties of such registries *)

\* the positions of the descriptors of a name
Positions(name) ==
  {i \in 1..Len(tools) :
     /\ HasDefinitionFunction(tools[i])
     /\ tools[i].definition.function.name = name}

\* the names the list operation returns
ListedNames == {name \in OddNames : Positions(name) # {}}

FirstPosition(name) ==
  CHOOSE i \in Positions(name) : \A j \in Positions(name) : i <= j

\* C25: a name is listed exactly when a call by it resolves (is not answered
\* MethodNotFound), and with an entry without definition in the Registry
\* neither the list nor any call fails with an error of its own.
C25_ListedIffResolvable ==
  /\ reply.op = "list"
       => {reply.tools[i].name : i \in 1..Len(reply.tools)} = ListedNames
  /\ IsCallReply
       => /\ reply.name \in ListedNames <=> ~IsFault("MethodNotFound")
          /\ reply.outcome.kind # "TypeError"

\* C26: when two descriptors share a name, a call by that name checks the
\* required list of the first one and invokes the operation of the first
\* one, never the later one's; the list still returns both entries.
C26_FirstOfSameNameWins ==
  /\ \A c \in CallIds :
       calls[c].state = "awaiting" /\ Cardinality(Positions(calls[c].name)) > 1
       => calls[c].tool = FirstPosition(calls[c].name)
  /\ (IsCallReply /\ Cardinality(Positions(reply.name)) > 1)
       => /\ IsFault("InvalidParams")
               <=> ~(Range(RequiredParameters(tools[FirstPosition(reply.name)]))
                       \subseteq Keys(reply.args))
          /\ reply.invoked <=> ~IsFault("InvalidParams")
          /\ reply.invoked
               => reply.settled
                    = Returned(Settle(tools[FirstPosition(reply.name)].function,
                                      reply.fetched))
  /\ (reply.op = "list" /\ tools = DuplicateRegistry)
       => /\ Len(reply.tools) = Len(tools)
          /\ \A i \in 1..Len(tools) : reply.tools[i] = Listed(tools[i])

\* a call by the repeated name was answered from the first descriptor
C26_Witness ==
  /\ IsEnvelope
  /\ reply.name = "get_all_orders"
  /\ Cardinality(Positions(reply.name)) > 1
  /\ reply.invoked

----------------------------------------------------------------------------
(* Properties of the classification of results and of the query string *)

\* the operation got a 2xx response, parsed its body as JSON and returned it
ParsedSuccess ==
  /\ IsUpstreamReply
  /\ Ok(reply.fetched)
  /\ JSONParse(reply.fetched.body).ok
  /\ reply.settled = Returned(JSONParse(reply.fetched.body).value)

\* the operation reported a failure: it returned an object with an error
\* message that is not the parsed body of a successful response
OperationFailure ==
  /\ IsCallReply
  /\ reply.settled.kind = "returned"
  /\ HasOwn(reply.settled.value, "error")
  /\ Get(reply.settled.value, "error").t = "string"
  /\ ~ParsedSuccess

\* C27: a call is answered with isError = true exactly when the operation
\* reported a failure: a parsed 2xx JSON body is presented as a normal
\* envelope even when it has a field named error, and a failure value is
\* presented with isError = true even when its message is the empty string.
C27_FailureExactlyWhenReported ==
  /\ ParsedSuccess => IsNormalEnvelope
  /\ OperationFailure => IsErrorEnvelope
  /\ IsErrorEnvelope => OperationFailure

\* the query parameters of the claim: every supplied filter with its value,
\* then limit and page with the supplied value or the default
SuppliedParams(filters, args) ==
  LET bag == Bag(args)
      RECURSIVE Walk(_)
      Walk(i) ==
        IF i > Len(filters) THEN <<>>
        ELSE (IF Get(bag, filters[i][1]) # Undefined
                THEN << <<filters[i][2], ToStr(Get(bag, filters[i][1]))>> >>
                ELSE <<>>)
             \o Walk(i + 1)
  IN Walk(1)
     \o << <<"limit", ToStr(WithDefault(Get(bag, "limit"), Num(DefaultLimit)))>>,
           <<"page", ToStr(WithDefault(Get(bag, "page"), Num(DefaultPage)))>> >>

\* C28: get_all_orders and get_all_customers fetch a URL whose query string
\* holds every filter supplied in the argument bag with its value, a value
\* of 0 included, then limit and page with the supplied value (0 included)
\* or the default 50 and 1, and no other key.
C28_EverySuppliedFilterInQuery ==
  \A c \in DOMAIN calls :
    calls[c].state = "awaiting"
    => /\ calls[c].name = "get_all_orders"
            => calls[c].url
                 = WithQuery(baseUrl \o "/" \o ToStr(StoreHash(calls[c].args))
                               \o "/v2/orders",
                             SuppliedParams(OrdersFilters, calls[c].args))
       /\ calls[c].name = "get_all_customers"
            => calls[c].url
                 = WithQuery(baseUrl \o "/" \o ToStr(StoreHash(calls[c].args))
                               \o "/v3/customers",
                             SuppliedParams(CustomersFilters, calls[c].args))

----------------------------------------------------------------------------
(* Properties of the SSE binding: the secret and the session maps *)

\* the request presented the configured secret as a bearer token
PresentedSecret(authHeader) == authHeader = Str("Bearer " \o Secret.s)

\* C29: with a secret configured, the SSE binding opens a session for a
\* GET /sse and hands a POST /messages to a transport only when the request
\* presented the secret, and no tool list is served for a message whose
\* request did not present it.
C29_NoServiceWithoutSecret ==
  /\ [](SecretConfigured
          => /\ \A n \in ConnIds :
                  conns[n].state = "open" => PresentedSecret(conns[n].authorization)
             /\ MessageHandled => PresentedSecret(posted.authorization))
  /\ [][SecretConfigured /\ reply' # reply /\ reply'.op = "list"
          => PresentedSecret(posted.authorization)]_vars

\* the sessions opened by GET /sse whose connection has not closed
OpenSessions == {n \in ConnIds : conns[n].state = "open"}

\* C30: in every state of the SSE binding the transport map and the server
\* map hold the same session identifiers, as many as there are sessions
\* whose connection is open, and every answer of GET /health reports that
\* number as activeSessions.
C30_SessionCountAndMaps ==
  /\ [](/\ DOMAIN transports = DOMAIN servers
        /\ Cardinality(DOMAIN transports) = Cardinality(OpenSessions))
  /\ [][reply' # reply /\ reply'.op = "health"
          => reply'.body.activeSessions = Cardinality(OpenSessions)]_vars

====
